---- MODULE Spec2Model ----
(***************************************************************************)
(* Model of the CLOS orchestrator bootstrap: the lifespan manager of       *)
(* clos/orchestrator/app.py (startup and shutdown of store, cache and      *)
(* worker pool), the middleware stack assembled by create_app, and the     *)
(* settings of clos/orchestrator/config.py that parameterise both.         *)
(***************************************************************************)
EXTENDS Integers, Sequences, FiniteSets, TLC

(***************************************************************************)
(* Bounds of the model.                                                    *)
(***************************************************************************)
MaxCap == 2          \* largest rate_limit_requests explored
MaxReqs == 1         \* request slots that can be in flight together
MaxTicks == 2        \* number of clock advances explored
ClockStep == 30      \* seconds per clock advance

(***************************************************************************)
(* Settings (config.py).  Only the fields read by app.py are kept.         *)
(***************************************************************************)
Environments == {"development", "production", "staging"}
PeriodValues == {30, 60}

SettingsSpace ==
    [environment : Environments,
     enable_performance_monitoring : BOOLEAN,
     enable_rate_limiting : BOOLEAN,
     rate_limit_requests : 1..MaxCap,
     rate_limit_period : PeriodValues]

\* is_production taken as "anything but development".
is_production_not_dev(s) == s.environment # "development"

is_production(s) == s.environment = "production"

is_development(s) == s.environment = "development"

(***************************************************************************)
(* Resources driven by the lifespan, in the order lifespan starts them.    *)
(***************************************************************************)
ResourceOrder == <<"store", "cache", "pool">>

Resources == {ResourceOrder[i] : i \in 1..Len(ResourceOrder)}

StartIndex(r) == CHOOSE i \in 1..Len(ResourceOrder) : ResourceOrder[i] = r

StartOps == {"init_db", "init_redis", "init_agent_pool"}

StopOps == {"close_db", "close_redis", "shutdown_agent_pool"}

ResourceOf(op) ==
    CASE op \in {"init_db", "close_db"} -> "store"
      [] op \in {"init_redis", "close_redis"} -> "cache"
      [] op \in {"init_agent_pool", "shutdown_agent_pool"} -> "pool"

\* Effect of a start operation on its resource: started, or failed when the
\* operation raises.
StartEffect(st, r, ok) == [st EXCEPT ![r] = IF ok THEN "started" ELSE "failed"]

\* Effect of a stop operation on its resource: stopped, or failed when the
\* operation raises.
StopEffect(st, r, ok) == [st EXCEPT ![r] = IF ok THEN "stopped" ELSE "failed"]

VARIABLES settings, pc, state, calls, reqs, buckets, now, environ, loaded,
          lock, racers

vars ==
    <<settings, pc, state, calls, reqs, buckets, now, environ, loaded,
      lock, racers>>

raceVars == <<lock, racers>>

cfgVars == <<environ, loaded>>

reqVars == <<reqs, buckets, now>>

(***************************************************************************)
(* Construction of Settings (config.py).  A string value is the sequence   *)
(* of its characters.                                                      *)
(***************************************************************************)
MaxNum == 1          \* numeric inputs range over -MaxNum..MaxNum

PgUrl == <<"p", "o", "s", "t", "g", "r", "e", "s", "q", "l", ":", "/", "/", "h">>

PostgresUrl == <<"p", "o", "s", "t", "g", "r", "e", "s", ":", "/", "/", "h">>

AsyncPgUrl == <<"p", "o", "s", "t", "g", "r", "e", "s", "q", "l", "+", "a", "s", "y", "n", "c", "p", "g", ":", "/", "/", "h">>

MysqlUrl == <<"m", "y", "s", "q", "l", ":", "/", "/", "h">>

OneSlashUrl == <<"p", "o", "s", "t", "g", "r", "e", "s", "q", "l", ":", "/", "h">>

EmptyUrl == <<>>

RedisUrl == <<"r", "e", "d", "i", "s", ":", "/", "/", "h">>

RedissUrl == <<"r", "e", "d", "i", "s", "s", ":", "/", "/", "h">>

HttpUrl == <<"h", "t", "t", "p", ":", "/", "/", "h">>

DatabaseUrls == {PgUrl, PostgresUrl, AsyncPgUrl, MysqlUrl, OneSlashUrl, EmptyUrl}

RedisUrls == {RedisUrl, RedissUrl, HttpUrl}

\* A variable of the process environment: set to a value, or absent.
Absent == [set |-> FALSE, value |-> <<>>]

AbsentNum == [set |-> FALSE, value |-> 0]

StrInputs(values) == {Absent} \cup {[set |-> TRUE, value |-> v] : v \in values}

NumInputs == {AbsentNum} \cup {[set |-> TRUE, value |-> n] : n \in (0 - MaxNum)..MaxNum}

EnvironSpace ==
    [secret_key : BOOLEAN,
     jwt_secret : BOOLEAN,
     database_url : StrInputs(DatabaseUrls),
     redis_url : StrInputs(RedisUrls),
     database_pool_size : NumInputs,
     database_pool_timeout : NumInputs,
     agent_timeout : NumInputs,
     agent_max_retries : NumInputs]

\* str.startswith
StartsWith(v, prefix) ==
    Len(v) >= Len(prefix) /\ SubSeq(v, 1, Len(prefix)) = prefix

\* A scheme test that forgets the "://".
validate_database_url_loose(v) ==
    StartsWith(v, <<"p", "o", "s", "t", "g", "r", "e", "s">>)

\* validate_database_url, lines 96-100: TRUE when the validator returns v.
validate_database_url(v) ==
    \/ StartsWith(v, <<"p", "o", "s", "t", "g", "r", "e", "s", "q", "l", ":", "/", "/">>)
    \/ StartsWith(v, <<"p", "o", "s", "t", "g", "r", "e", "s", ":", "/", "/">>)

\* validate_redis_url, lines 102-106
validate_redis_url(v) == StartsWith(v, <<"r", "e", "d", "i", "s", ":", "/", "/">>)

\* Fields declared with Field(...): secret_key, jwt_secret, database_url,
\* redis_url (lines 23, 24, 35, 42).
RequiredPresent(e) ==
    /\ e.secret_key
    /\ e.jwt_secret
    /\ e.database_url.set
    /\ e.redis_url.set

\* An int field: the value given, or the declared default.
IntField(input, default) == IF input.set THEN input.value ELSE default

NoSettings == [unbound |-> TRUE]

\* Settings(), lines 9-106 and 149: the object, or the validation error that
\* leaves the name settings unbound.
Settings(e) ==
    IF /\ RequiredPresent(e)
       /\ validate_database_url(e.database_url.value)
       /\ validate_redis_url(e.redis_url.value)
    THEN [status |-> "ok",
          value |-> [database_url |-> e.database_url.value,
                     redis_url |-> e.redis_url.value,
                     database_pool_size |-> IntField(e.database_pool_size, 20),
                     database_pool_timeout |-> IntField(e.database_pool_timeout, 30),
                     agent_timeout |-> IntField(e.agent_timeout, 300),
                     agent_max_retries |-> IntField(e.agent_max_retries, 3)]]
    ELSE [status |-> "ValidationError", value |-> NoSettings]

Unloaded == [status |-> "unloaded", value |-> NoSettings]

\* The environment of a process that started: required variables present,
\* accepted schemes, numeric fields left at their defaults.
StartedEnviron ==
    [secret_key |-> TRUE,
     jwt_secret |-> TRUE,
     database_url |-> [set |-> TRUE, value |-> PgUrl],
     redis_url |-> [set |-> TRUE, value |-> RedisUrl],
     database_pool_size |-> AbsentNum,
     database_pool_timeout |-> AbsentNum,
     agent_timeout |-> AbsentNum,
     agent_max_retries |-> AbsentNum]

\* config.py, line 149: the module is imported and settings = Settings() runs.
load_settings ==
    /\ loaded = Unloaded
    /\ loaded' = Settings(environ)
    /\ UNCHANGED <<raceVars, environ, settings, pc, state, calls, reqVars>>

\* A start whose exception sends lifespan to its stop calls.
AwaitStartUnwind(ok, next) == IF ok THEN next ELSE "close_db"

\* A start whose exception is caught and dropped: lifespan goes on.
AwaitStartSwallow(ok, next) == next

\* An awaited call that raises leaves lifespan through the exception: the
\* statements after it do not run.

AwaitStart(ok, next) == IF ok THEN next ELSE "startup_failed"

AwaitStop(ok, next) == IF ok THEN next ELSE "shutdown_failed"

\* lifespan, lines 38-41: log, setup_logging(settings)
setup_logging ==
    /\ pc = "setup_logging"
    /\ \E ok \in BOOLEAN : pc' = AwaitStart(ok, "init_monitoring")
    /\ UNCHANGED <<raceVars, cfgVars, settings, state, calls, reqVars>>

\* lifespan, lines 44-45
init_monitoring ==
    /\ pc = "init_monitoring"
    /\ \E ok \in BOOLEAN :
         pc' = IF settings.enable_performance_monitoring
               THEN AwaitStart(ok, "init_db")
               ELSE "init_db"
    /\ UNCHANGED <<raceVars, cfgVars, settings, state, calls, reqVars>>

\* lifespan, line 48
init_db ==
    /\ pc = "init_db"
    /\ \E ok \in BOOLEAN :
         /\ state' = StartEffect(state, "store", ok)
         /\ pc' = AwaitStart(ok, "init_redis")
    /\ calls' = Append(calls, "init_db")
    /\ UNCHANGED <<raceVars, cfgVars, settings, reqVars>>

\* lifespan, lines 51-52
init_redis ==
    /\ pc = "init_redis"
    /\ \E ok \in BOOLEAN :
         /\ state' = StartEffect(state, "cache", ok)
         /\ pc' = AwaitStart(ok, "init_agent_pool")
    /\ calls' = Append(calls, "init_redis")
    /\ UNCHANGED <<raceVars, cfgVars, settings, reqVars>>

\* init_agent_pool wrapped so that the yield is reached whatever it does.
init_agent_pool_yield_always ==
    /\ pc = "init_agent_pool"
    /\ \E ok \in BOOLEAN :
         /\ state' = StartEffect(state, "pool", ok)
         /\ pc' = "serving"
    /\ calls' = Append(calls, "init_agent_pool")
    /\ UNCHANGED <<raceVars, cfgVars, settings, reqVars>>

\* lifespan, lines 55-60: init_agent_pool, log, yield
init_agent_pool ==
    /\ pc = "init_agent_pool"
    /\ \E ok \in BOOLEAN :
         /\ state' = StartEffect(state, "pool", ok)
         /\ pc' = AwaitStart(ok, "serving")
    /\ calls' = Append(calls, "init_agent_pool")
    /\ UNCHANGED <<raceVars, cfgVars, settings, reqVars>>

\* lifespan, lines 62-66: the context manager is resumed, close_db
close_db ==
    /\ pc = "close_db"
    /\ \E ok \in BOOLEAN :
         /\ state' = StopEffect(state, "store", ok)
         /\ pc' = AwaitStop(ok, "close_redis")
    /\ calls' = Append(calls, "close_db")
    /\ UNCHANGED <<raceVars, cfgVars, settings, reqVars>>

\* lifespan, lines 69-70
close_redis ==
    /\ pc = "close_redis"
    /\ \E ok \in BOOLEAN :
         /\ state' = StopEffect(state, "cache", ok)
         /\ pc' = AwaitStop(ok, "shutdown_agent_pool")
    /\ calls' = Append(calls, "close_redis")
    /\ UNCHANGED <<raceVars, cfgVars, settings, reqVars>>

\* lifespan, lines 73-76
shutdown_agent_pool ==
    /\ pc = "shutdown_agent_pool"
    /\ \E ok \in BOOLEAN :
         /\ state' = StopEffect(state, "pool", ok)
         /\ pc' = AwaitStop(ok, "done")
    /\ calls' = Append(calls, "shutdown_agent_pool")
    /\ UNCHANGED <<raceVars, cfgVars, settings, reqVars>>

(***************************************************************************)
(* The middleware stack assembled by create_app.                           *)
(***************************************************************************)
Range(f) == {f[i] : i \in DOMAIN f}

\* app.add_middleware puts the new middleware in front of the ones added
\* before it: the first element of the stack is the outermost.
add_middleware(stack, m) == <<m>> \o stack

\* create_app with the rate limiter installed whatever the flag says.
create_app_always_limit(s) ==
    add_middleware(
        add_middleware(
            add_middleware(
                add_middleware(
                    add_middleware(<<>>, "CORSMiddleware"),
                    "TrustedHostMiddleware"),
                "LoggingMiddleware"),
            "MetricsMiddleware"),
        "RateLimitMiddleware")

\* create_app, lines 91-114: the add_middleware calls in source order.
create_app(s) ==
    LET a1 == add_middleware(<<>>, "CORSMiddleware")
        a2 == add_middleware(a1, "TrustedHostMiddleware")
        a3 == add_middleware(a2, "LoggingMiddleware")
        a4 == add_middleware(a3, "MetricsMiddleware")
    IN  IF s.enable_rate_limiting
        THEN add_middleware(a4, "RateLimitMiddleware")
        ELSE a4

\* The stages a request meets, outermost first, ending in router dispatch.
Pipeline(s) == create_app(s) \o <<"router">>

\* create_app, line 103: the allowed_hosts handed to TrustedHostMiddleware.
\* A host name is the sequence of its dot-separated labels.
allowed_hosts(s) ==
    IF is_development(s)
    THEN {<<"*">>}
    ELSE {<<"*", "candlefish", "ai">>, <<"localhost">>}

\* create_app, line 113: the only argument handed to RateLimitMiddleware.
requests_per_minute(s) == s.rate_limit_requests

\* The window of a limiter configured in requests per minute, in seconds.
RateLimitWindow == 60

Hosts == {<<"api", "candlefish", "ai">>, <<"localhost">>, <<"evil", "example">>}

\* Client identities.  Buckets are kept per identity; one identity is
\* explored, since no stage relates the buckets of two identities.
Identities == {"a"}

\* TrustedHostMiddleware: exact match, or a wildcard pattern whose remainder
\* is a suffix of the host.
HostMatches(host, pat) ==
    \/ host = pat
    \/ /\ pat[1] = "*"
       /\ Len(host) >= Len(pat)
       /\ \A k \in 2..Len(pat) : host[Len(host) - Len(pat) + k] = pat[k]

HostAllowed(host, allowed) == \E pat \in allowed : HostMatches(host, pat)

\* Rate limit bucket of one identity: counter and window start.
NoBucket == [count |-> 0, window_start |-> -1]

WindowExpired(b, t, window) == b = NoBucket \/ t - b.window_start >= window

\* admit(identity, now): fixed-window counting.
Admitted(b, t, cap, window) == WindowExpired(b, t, window) \/ b.count < cap

BucketAfter(b, t, cap, window) ==
    IF WindowExpired(b, t, window) THEN [count |-> 1, window_start |-> t]
    ELSE IF b.count < cap THEN [b EXCEPT !.count = b.count + 1]
    ELSE b

\* Unhandled failures a route handler can raise: type name and message.
Exceptions ==
    {[type |-> "ValueError", message |-> "bad input"],
     [type |-> "KeyError", message |-> "db password"]}

NoExc == [type |-> "", message |-> ""]

\* A response body the model does not look into.
NoBody == [empty |-> ""]

\* global_exception_handler, lines 138-141: content of the production answer.
GenericBody == [detail |-> "Internal server error"]

\* global_exception_handler, lines 143-149: str(exc) and type(exc).__name__.
VerboseBody(exc) == [detail |-> exc.message, type |-> exc.type]

\* The handler answering in full whatever the environment.
HandlerResponseVerbose(s, exc) ==
    [status_code |-> 500, content |-> VerboseBody(exc)]

\* global_exception_handler, lines 137-149: the JSONResponse returned.
HandlerResponse(s, exc) ==
    IF is_production(s)
    THEN [status_code |-> 500, content |-> GenericBody]
    ELSE [status_code |-> 500, content |-> VerboseBody(exc)]

\* The steps of the handler that can themselves raise: the logger.error call
\* (lines 130-135) and, on the verbose branch only, str(exc) (line 146).
HandlerSteps == {"logger.error", "str(exc)"}

HandlerRaises(s, failing) ==
    \/ failing = "logger.error"
    \/ failing = "str(exc)" /\ ~is_production(s)

IdleReq ==
    [phase |-> "idle", host |-> <<>>, identity |-> "", pos |-> 0,
     entered |-> <<>>, status |-> 0, logged |-> 0, metered |-> 0,
     counted |-> FALSE, exc |-> NoExc, handled |-> "none", body |-> NoBody]

Slots == 1..MaxReqs

\* The stage the request in slot r is about to enter.
AtStage(r, name) ==
    /\ reqs[r].phase = "inflight"
    /\ Pipeline(settings)[reqs[r].pos] = name

Enter(q, name) == [q EXCEPT !.entered = Append(q.entered, name), !.pos = q.pos + 1]

\* A response with status s travels back through the stages entered so far;
\* the logging and metrics middleware among them record it.
Respond(q, s) ==
    [q EXCEPT !.phase = "responded",
              !.status = s,
              !.logged = IF "LoggingMiddleware" \in Range(q.entered) THEN s ELSE 0,
              !.metered = IF "MetricsMiddleware" \in Range(q.entered) THEN s ELSE 0]

\* A request reaches the application while it is serving and takes the
\* lowest free slot.
Arrive(r) ==
    /\ pc = "serving"
    /\ reqs[r].phase = "idle"
    /\ \A k \in 1..(r - 1) : reqs[k].phase # "idle"
    /\ \E h \in Hosts, id \in Identities :
         reqs' = [reqs EXCEPT ![r] =
                    [IdleReq EXCEPT !.phase = "inflight", !.host = h,
                                    !.identity = id, !.pos = 1]]
    /\ UNCHANGED <<raceVars, cfgVars, settings, pc, state, calls, buckets, now>>

RateLimitStage(r) ==
    /\ AtStage(r, "RateLimitMiddleware")
    /\ LET q == Enter(reqs[r], "RateLimitMiddleware")
           b == buckets[q.identity]
           cap == requests_per_minute(settings)
           nb == BucketAfter(b, now, cap, RateLimitWindow)
           q2 == [q EXCEPT !.counted = (nb # b)]
       IN  /\ buckets' = [buckets EXCEPT ![q.identity] = nb]
           /\ reqs' = [reqs EXCEPT ![r] =
                         IF Admitted(b, now, cap, RateLimitWindow)
                         THEN q2 ELSE Respond(q2, 429)]
    /\ UNCHANGED <<raceVars, cfgVars, settings, pc, state, calls, now>>

MetricsStage(r) ==
    /\ AtStage(r, "MetricsMiddleware")
    /\ reqs' = [reqs EXCEPT ![r] = Enter(reqs[r], "MetricsMiddleware")]
    /\ UNCHANGED <<raceVars, cfgVars, settings, pc, state, calls, buckets, now>>

LoggingStage(r) ==
    /\ AtStage(r, "LoggingMiddleware")
    /\ reqs' = [reqs EXCEPT ![r] = Enter(reqs[r], "LoggingMiddleware")]
    /\ UNCHANGED <<raceVars, cfgVars, settings, pc, state, calls, buckets, now>>

TrustedHostStage(r) ==
    /\ AtStage(r, "TrustedHostMiddleware")
    /\ LET q == Enter(reqs[r], "TrustedHostMiddleware")
       IN  reqs' = [reqs EXCEPT ![r] =
                      IF HostAllowed(q.host, allowed_hosts(settings))
                      THEN q ELSE Respond(q, 400)]
    /\ UNCHANGED <<raceVars, cfgVars, settings, pc, state, calls, buckets, now>>

CORSStage(r) ==
    /\ AtStage(r, "CORSMiddleware")
    /\ reqs' = [reqs EXCEPT ![r] = Enter(reqs[r], "CORSMiddleware")]
    /\ UNCHANGED <<raceVars, cfgVars, settings, pc, state, calls, buckets, now>>

\* Router dispatch: the matched handler answers, or no route matches.
RouterDispatch(r) ==
    /\ AtStage(r, "router")
    /\ \E s \in {200, 404} :
         reqs' = [reqs EXCEPT ![r] = Respond(Enter(reqs[r], "router"), s)]
    /\ UNCHANGED <<raceVars, cfgVars, settings, pc, state, calls, buckets, now>>

\* A route handler raises exc; the exception travels outward past every
\* middleware to global_exception_handler (lines 128-149).  The handler has
\* no try/except: a step of it that raises makes the handler raise, and the
\* server answers with its own bare 500.
global_exception_handler(r) ==
    /\ AtStage(r, "router")
    /\ \E exc \in Exceptions, failing \in HandlerSteps \cup {"none"} :
         LET q == [Enter(reqs[r], "router") EXCEPT !.phase = "responded",
                                                    !.exc = exc]
             resp == HandlerResponse(settings, exc)
         IN  reqs' = [reqs EXCEPT ![r] =
                        IF HandlerRaises(settings, failing)
                        THEN [q EXCEPT !.handled = "raised", !.status = 500]
                        ELSE [q EXCEPT !.handled = "returned",
                                       !.status = resp.status_code,
                                       !.body = resp.content]]
    /\ UNCHANGED <<raceVars, cfgVars, settings, pc, state, calls, buckets, now>>

(***************************************************************************)
(* The rate-limit stage taken apart: MaxRacers requests of one identity    *)
(* reach the limiter together, and each updates the identity's bucket      *)
(* under the bucket's lock: acquire, read, write and release.              *)
(***************************************************************************)
MaxRacers == 3       \* requests of one identity racing for the bucket

Racers == 1..MaxRacers

RaceIdentity == "a"

ArrivedRacer == [pc |-> "arrived", seen |-> NoBucket, admitted |-> FALSE]

\* Entering the update without waiting for the bucket's lock.
AcquireUnlocked(i) ==
    /\ pc = "serving"
    /\ racers[i].pc = "arrived"
    /\ lock' = [lock EXCEPT ![RaceIdentity] = i]
    /\ racers' = [racers EXCEPT ![i].pc = "locked"]
    /\ UNCHANGED <<cfgVars, settings, pc, state, calls, reqVars>>

\* The request takes the lock of its identity's bucket when it is free.
Acquire(i) ==
    /\ pc = "serving"
    /\ racers[i].pc = "arrived"
    /\ lock[RaceIdentity] = 0
    /\ lock' = [lock EXCEPT ![RaceIdentity] = i]
    /\ racers' = [racers EXCEPT ![i].pc = "locked"]
    /\ UNCHANGED <<cfgVars, settings, pc, state, calls, reqVars>>

\* It reads the bucket.
ReadBucket(i) ==
    /\ racers[i].pc = "locked"
    /\ racers' = [racers EXCEPT ![i].pc = "read",
                                 ![i].seen = buckets[RaceIdentity]]
    /\ UNCHANGED <<lock, cfgVars, settings, pc, state, calls, reqVars>>

\* It decides on what it read, writes the bucket back and releases the lock.
WriteBucket(i) ==
    /\ racers[i].pc = "read"
    /\ LET b == racers[i].seen
           cap == requests_per_minute(settings)
       IN  /\ buckets' = [buckets EXCEPT ![RaceIdentity] =
                             BucketAfter(b, now, cap, RateLimitWindow)]
           /\ racers' = [racers EXCEPT
                           ![i].pc = "done",
                           ![i].admitted = Admitted(b, now, cap, RateLimitWindow)]
    /\ lock' = [lock EXCEPT ![RaceIdentity] = 0]
    /\ UNCHANGED <<cfgVars, settings, pc, state, calls, reqs, now>>

\* The response has been sent; the slot is free for the next request.
Release(r) ==
    /\ reqs[r].phase = "responded"
    /\ reqs' = [reqs EXCEPT ![r] = IdleReq]
    /\ UNCHANGED <<raceVars, cfgVars, settings, pc, state, calls, buckets, now>>

\* Time passes while the application serves.
Tick ==
    /\ pc = "serving"
    /\ now < MaxTicks * ClockStep
    /\ now' = now + ClockStep
    /\ UNCHANGED <<raceVars, cfgVars, settings, pc, state, calls, reqs, buckets>>

\* The server stops: with no request in flight, lifespan is resumed after
\* its yield (line 60).
yield_resume ==
    /\ pc = "serving"
    /\ \A r \in Slots : reqs[r].phase = "idle"
    /\ pc' = "close_db"
    /\ UNCHANGED <<raceVars, cfgVars, settings, state, calls, reqVars>>

Init ==
    /\ settings \in SettingsSpace
    /\ pc = "setup_logging"
    /\ state = [r \in Resources |-> "unstarted"]
    /\ calls = <<>>
    /\ reqs = [r \in Slots |-> IdleReq]
    /\ buckets = [id \in Identities |-> NoBucket]
    /\ now = 0
    /\ environ = StartedEnviron
    /\ loaded = Settings(StartedEnviron)
    /\ lock = [id \in Identities |-> 0]
    /\ racers = [i \in Racers |-> ArrivedRacer]

Lifespan ==
    \/ setup_logging
    \/ init_monitoring
    \/ init_db
    \/ init_redis
    \/ init_agent_pool
    \/ yield_resume
    \/ close_db
    \/ close_redis
    \/ shutdown_agent_pool

\* lifespan, lines 48, 52, 56: the awaited start never completes.  No timeout
\* bounds the await, so lifespan stays suspended in it.
await_never_completes ==
    /\ pc \in StartOps
    /\ pc' = "hung"
    /\ calls' = Append(calls, pc)
    /\ UNCHANGED <<raceVars, cfgVars, settings, state, reqVars>>

\* The statements of the startup phase.
Startup ==
    \/ setup_logging
    \/ init_monitoring
    \/ init_db
    \/ init_redis
    \/ init_agent_pool

LifespanLive ==
    \/ Lifespan
    \/ await_never_completes

\* Lifespan with starts that may hang.  The event loop resumes lifespan
\* whenever the call it awaits has completed, so a startup statement that
\* stays enabled is eventually run.
SpecLive == Init /\ [][LifespanLive]_vars /\ WF_vars(Startup)

\* The application from process start to the end of lifespan, with no
\* request arriving while it serves.
Spec == Init /\ [][Lifespan]_vars

\* The state in which lifespan yields: every start has succeeded.  The
\* monitoring flag is read during startup only and is left at its default.
InitServing ==
    /\ settings \in SettingsSpace
    /\ ~settings.enable_performance_monitoring
    /\ pc = "serving"
    /\ state = [r \in Resources |-> "started"]
    /\ calls = <<"init_db", "init_redis", "init_agent_pool">>
    /\ reqs = [r \in Slots |-> IdleReq]
    /\ buckets = [id \in Identities |-> NoBucket]
    /\ now = 0
    /\ environ = StartedEnviron
    /\ loaded = Settings(StartedEnviron)
    /\ lock = [id \in Identities |-> 0]
    /\ racers = [i \in Racers |-> ArrivedRacer]

Serving ==
    \/ \E r \in Slots : Arrive(r)
    \/ \E r \in Slots : RateLimitStage(r)
    \/ \E r \in Slots : MetricsStage(r)
    \/ \E r \in Slots : LoggingStage(r)
    \/ \E r \in Slots : TrustedHostStage(r)
    \/ \E r \in Slots : CORSStage(r)
    \/ \E r \in Slots : RouterDispatch(r)
    \/ \E r \in Slots : Release(r)
    \/ Tick

\* The application while it serves requests, from the yield of lifespan on.
SpecServing == InitServing /\ [][Serving]_vars

\* The process before clos.orchestrator.config is imported: nothing of the
\* application exists yet.
InitConfig ==
    /\ environ \in EnvironSpace
    /\ loaded = Unloaded
    /\ settings = NoSettings
    /\ pc = "import"
    /\ lock = [id \in Identities |-> 0]
    /\ racers = [i \in Racers |-> ArrivedRacer]
    /\ state = [r \in Resources |-> "unstarted"]
    /\ calls = <<>>
    /\ reqs = [r \in Slots |-> IdleReq]
    /\ buckets = [id \in Identities |-> NoBucket]
    /\ now = 0

SpecConfig == InitConfig /\ [][load_settings]_vars

\* Serving with rate limiting on, at the moment the racing requests arrive.
InitRace ==
    /\ InitServing
    /\ settings.enable_rate_limiting

Racing ==
    \/ \E i \in Racers : Acquire(i)
    \/ \E i \in Racers : ReadBucket(i)
    \/ \E i \in Racers : WriteBucket(i)

\* Concurrent requests of one identity inside one window.
SpecRace == InitRace /\ [][Racing]_vars

\* Serving with rate limiting switched off, so that the stack holds no
\* limiter and the clock is read by nobody.
InitFault ==
    /\ InitServing
    /\ ~settings.enable_rate_limiting

Faulting ==
    \/ \E r \in Slots : Arrive(r)
    \/ \E r \in Slots : MetricsStage(r)
    \/ \E r \in Slots : LoggingStage(r)
    \/ \E r \in Slots : TrustedHostStage(r)
    \/ \E r \in Slots : CORSStage(r)
    \/ \E r \in Slots : RouterDispatch(r)
    \/ \E r \in Slots : global_exception_handler(r)
    \/ \E r \in Slots : Release(r)

\* The application serving requests whose route handlers may raise.
SpecFault == InitFault /\ [][Faulting]_vars

TypeOK ==
    /\ settings \in SettingsSpace \cup {NoSettings}
    /\ environ \in EnvironSpace
    /\ loaded.status \in {"unloaded", "ok", "ValidationError"}
    /\ settings # NoSettings => loaded.status = "ok"
    /\ \A id \in Identities : lock[id] \in 0..MaxRacers
    /\ \A i \in Racers : racers[i].pc \in {"arrived", "locked", "read", "done"}
    /\ state \in [Resources -> {"unstarted", "started", "stopped", "failed"}]
    /\ now \in 0..(MaxTicks * ClockStep)
    /\ pc \in {"setup_logging", "init_monitoring", "init_db", "init_redis",
               "init_agent_pool", "serving", "close_db", "close_redis",
               "shutdown_agent_pool", "done", "startup_failed",
               "shutdown_failed", "hung", "import"}
    /\ \A i \in DOMAIN calls : calls[i] \in StartOps \cup StopOps
    /\ \A id \in Identities :
         buckets[id] = NoBucket
           \/ (buckets[id].count \in 1..MaxCap /\ buckets[id].window_start \in 0..now)
    /\ \A r \in Slots :
         /\ reqs[r].phase \in {"idle", "inflight", "responded"}
         /\ reqs[r].status \in {0, 200, 400, 404, 429, 500}
         /\ reqs[r].phase = "responded" <=> reqs[r].status # 0

(***************************************************************************)
(* Properties of the lifespan.                                             *)
(***************************************************************************)
Count(op) == Cardinality({i \in DOMAIN calls : calls[i] = op})

StopOpOf(r) == CHOOSE op \in StopOps : ResourceOf(op) = r

\* The start of r was invoked and raised.
StartFailed(r) == state[r] = "failed" /\ Count(StopOpOf(r)) = 0

\* C1: when the start of a resource has failed and the error has left the
\* startup phase, no resource is left in the started state (everything
\* started before the failure has been stopped again).
RollbackOnStartFailure ==
    pc = "startup_failed" => \A r \in Resources : state[r] # "started"

\* C2: stop operations are invoked in reverse of start order: a stop is never
\* invoked before the stop of a resource started after it.
ReverseOrderShutdown ==
    \A i, j \in DOMAIN calls :
        (i < j /\ calls[i] \in StopOps /\ calls[j] \in StopOps)
            => StartIndex(ResourceOf(calls[i])) > StartIndex(ResourceOf(calls[j]))

\* C3: once shutdown has begun and lifespan has ended, every stop has been
\* attempted exactly once and no stop failure has left the shutdown phase.
TotalShutdown ==
    pc \in {"done", "shutdown_failed"}
        => (pc = "done" /\ \A op \in StopOps : Count(op) = 1)

\* C4: in every reachable state the started resources form a contiguous
\* prefix of the declared order store, cache, worker pool.
ContiguousPrefix ==
    \A i, j \in 1..Len(ResourceOrder) :
        (i < j /\ state[ResourceOrder[j]] = "started")
            => state[ResourceOrder[i]] = "started"

\* C5: a start is invoked only when every resource declared before it is
\* started, and after a failed start every later resource stays unstarted.
StrictStartOrder ==
    /\ [][\A op \in StartOps :
            calls' = Append(calls, op)
                => \A i \in 1..(StartIndex(ResourceOf(op)) - 1) :
                       state[ResourceOrder[i]] = "started"]_vars
    /\ [](\A i, j \in 1..Len(ResourceOrder) :
            (i < j /\ StartFailed(ResourceOrder[i]))
                => state[ResourceOrder[j]] = "unstarted")

\* The cache start has failed after the store started: the pool is untouched.
StrictStartOrderWitness ==
    /\ pc = "startup_failed"
    /\ calls = <<"init_db", "init_redis">>
    /\ state = [store |-> "started", cache |-> "failed", pool |-> "unstarted"]

\* C6: the serving phase is entered only with all three resources started,
\* and an execution in which a start failed stays out of it.
ServingOnlyWhenAllStarted ==
    /\ pc = "serving" => \A r \in Resources : state[r] = "started"
    /\ (\E r \in Resources : StartFailed(r)) => pc = "startup_failed"

\* Lifespan has reached its yield after three successful starts.
ServingWitness ==
    /\ pc = "serving"
    /\ calls = <<"init_db", "init_redis", "init_agent_pool">>
    /\ \A r \in Resources : state[r] = "started"

(***************************************************************************)
(* Properties of the request pipeline.                                     *)
(***************************************************************************)
\* The order of stages section 4.3 describes.
DocumentedOrder ==
    <<"TrustedHostMiddleware", "CORSMiddleware", "LoggingMiddleware",
      "MetricsMiddleware", "RateLimitMiddleware", "router">>

Rank(name) == CHOOSE k \in 1..Len(DocumentedOrder) : DocumentedOrder[k] = name

\* C7: the stages a request has entered follow the order host validation,
\* CORS, logging, metrics, rate limiting, router: none is entered before the
\* one that precedes it.
PipelineOrder ==
    \A r \in Slots : \A i, j \in DOMAIN reqs[r].entered :
        i < j => Rank(reqs[r].entered[i]) < Rank(reqs[r].entered[j])

\* C8: a request rejected by the rate limiter has been through the logging
\* and metrics middleware, and both recorded the rejection status.
RejectedAreRecorded ==
    \A r \in Slots :
        (reqs[r].phase = "responded" /\ reqs[r].status = 429)
            => /\ "LoggingMiddleware" \in Range(reqs[r].entered)
               /\ "MetricsMiddleware" \in Range(reqs[r].entered)
               /\ reqs[r].logged = 429
               /\ reqs[r].metered = 429

RejectedByHost(q) ==
    /\ q.phase = "responded"
    /\ q.status = 400
    /\ q.entered # <<>>
    /\ q.entered[Len(q.entered)] = "TrustedHostMiddleware"

\* C9: a request rejected by host validation has entered neither logging,
\* metrics nor rate limiting, and has changed no rate-limit counter.
HostRejectionOutermost ==
    \A r \in Slots :
        RejectedByHost(reqs[r])
            => /\ Range(reqs[r].entered) \cap
                    {"LoggingMiddleware", "MetricsMiddleware",
                     "RateLimitMiddleware"} = {}
               /\ ~reqs[r].counted

\* C10: with cap rate_limit_requests and window rate_limit_period, a request
\* inside the identity's window is admitted and counted while the counter is
\* below the cap and rejected with the counter unchanged at the cap, and a
\* request after the window has elapsed is admitted with the counter at 1.
ConfiguredWindowAdmission ==
    [][\A r \in Slots :
        (AtStage(r, "RateLimitMiddleware") /\ reqs'[r] # reqs[r]) =>
            LET id == reqs[r].identity
                b == buckets[id]
                cap == settings.rate_limit_requests
                elapsed == b = NoBucket
                             \/ now - b.window_start >= settings.rate_limit_period
            IN  /\ elapsed
                     => (reqs'[r].status # 429 /\ buckets'[id].count = 1
                           /\ buckets'[id].window_start = now)
                /\ (~elapsed /\ b.count < cap)
                     => (reqs'[r].status # 429
                           /\ buckets'[id].count = b.count + 1)
                /\ (~elapsed /\ b.count >= cap)
                     => (reqs'[r].status = 429 /\ buckets'[id] = b)]_vars

\* C12: with enable_rate_limiting false no request meets the rate-limit
\* stage: none is rejected as over the limit and no bucket is ever created
\* or changed.
NoBookkeepingWhenDisabled ==
    ~settings.enable_rate_limiting
        => /\ \A id \in Identities : buckets[id] = NoBucket
           /\ \A r \in Slots :
                /\ reqs[r].status # 429
                /\ "RateLimitMiddleware" \notin Range(reqs[r].entered)
                /\ ~reqs[r].counted

\* With rate limiting off, a request has gone through the whole stack to the
\* router and been answered, and its identity has no bucket.
NoBookkeepingWitness ==
    /\ ~settings.enable_rate_limiting
    /\ \E r \in Slots :
         /\ reqs[r].phase = "responded"
         /\ reqs[r].status = 200
         /\ Len(reqs[r].entered) = 5
         /\ buckets[reqs[r].identity] = NoBucket

(***************************************************************************)
(* Properties of the global exception handler.                             *)
(***************************************************************************)
\* The body carries the value x in one of its fields.
Contains(body, x) == \E k \in DOMAIN body : body[k] = x

Leaks(q) == Contains(q.body, q.exc.message) \/ Contains(q.body, q.exc.type)

\* C13: a response returned by the handler has status 500; in production its
\* body is the fixed {"detail": "Internal server error"}, the same for every
\* failure and without the exception's message or type name; in development
\* it contains both the message and the type name.
EnvironmentAwareResponse ==
    \A r \in Slots :
        reqs[r].handled = "returned"
            => /\ reqs[r].status = 500
               /\ is_production(settings)
                    => (reqs[r].body = GenericBody /\ ~Leaks(reqs[r]))
               /\ is_development(settings)
                    => /\ Contains(reqs[r].body, reqs[r].exc.message)
                       /\ Contains(reqs[r].body, reqs[r].exc.type)

\* In production the handler has answered a failure.
EnvironmentAwareWitness ==
    /\ is_production(settings)
    /\ \E r \in Slots :
         /\ reqs[r].handled = "returned"
         /\ reqs[r].exc \in Exceptions
         /\ reqs[r].body = GenericBody

\* C14: every invocation of the handler ends with a response returned by the
\* handler, the generic one when a step inside the handler has failed; the
\* handler never raises.
HandlerNeverThrows ==
    \A r \in Slots :
        reqs[r].exc # NoExc
            => (reqs[r].handled = "returned" /\ reqs[r].body # NoBody)

\* C19: whenever the environment is not exactly "production" the handler's
\* answer contains the exception's message and type name, while the wildcard
\* host list is used only when it is exactly "development": elsewhere a host
\* outside the restricted list never gets past host validation.
VerbosityByExactProduction ==
    /\ \A r \in Slots :
         (settings.environment # "production" /\ reqs[r].handled = "returned")
            => /\ Contains(reqs[r].body, reqs[r].exc.message)
               /\ Contains(reqs[r].body, reqs[r].exc.type)
    /\ (allowed_hosts(settings) = {<<"*">>})
            <=> settings.environment = "development"
    /\ \A r \in Slots :
         (settings.environment # "development"
            /\ "CORSMiddleware" \in Range(reqs[r].entered))
            => reqs[r].host \in {<<"api", "candlefish", "ai">>, <<"localhost">>}

\* In staging, neither production nor development, a failure has been
\* answered in full.
VerbosityWitness ==
    /\ settings.environment = "staging"
    /\ allowed_hosts(settings) # {<<"*">>}
    /\ \E r \in Slots :
         /\ reqs[r].handled = "returned"
         /\ reqs[r].body = VerboseBody(reqs[r].exc)
         /\ reqs[r].exc \in Exceptions

(***************************************************************************)
(* Further properties of the lifespan.                                     *)
(***************************************************************************)
\* C18: a stop is invoked only on a started resource, after the three starts
\* have all succeeded and the serving phase is over, and no stop is invoked
\* twice.
StopsFollowCompleteStart ==
    /\ [][\A op \in StopOps :
            calls' = Append(calls, op)
                => /\ state[ResourceOf(op)] = "started"
                   /\ Len(calls) >= 3
                   /\ SubSeq(calls, 1, 3) = <<"init_db", "init_redis", "init_agent_pool">>
                   /\ \A r \in Resources : ~StartFailed(r)
                   /\ pc \in StopOps]_vars
    /\ [](\A op \in StopOps : Count(op) <= 1)

\* A complete shutdown: three starts, the serving phase, three stops.
StopsFollowCompleteStartWitness ==
    /\ pc = "done"
    /\ Len(calls) = 6
    /\ \A r \in Resources : state[r] = "stopped"

StartingPcs ==
    {"setup_logging", "init_monitoring", "init_db", "init_redis",
     "init_agent_pool", "hung"}

\* C15: a start that never completes is turned by its timeout into a start
\* failure followed by the unwind, so startup never stays forever in the
\* middle of starting a resource.
BoundedStart ==
    /\ (pc = "hung") ~> (pc = "startup_failed"
                           /\ \A r \in Resources : state[r] # "started")
    /\ <>(pc \notin StartingPcs)

(***************************************************************************)
(* Properties of the construction of Settings.                             *)
(***************************************************************************)
Numerics(v) ==
    {v.database_pool_size, v.database_pool_timeout, v.agent_timeout,
     v.agent_max_retries}

NumericInputs(e) ==
    {e.database_pool_size, e.database_pool_timeout, e.agent_timeout,
     e.agent_max_retries}

\* C16: once Settings() has run, a store URL that begins with neither
\* postgresql:// nor postgres://, or a cache URL that does not begin with
\* redis://, has produced a validation error and no settings object; with
\* accepted schemes and the required fields present it has produced the
\* object carrying both URLs.
SchemeValidationAllOrNothing ==
    loaded # Unloaded =>
        /\ (environ.database_url.set /\ environ.database_url.value
                \in {AsyncPgUrl, MysqlUrl, OneSlashUrl, EmptyUrl})
             => (loaded.status = "ValidationError" /\ loaded.value = NoSettings)
        /\ (environ.redis_url.set /\ environ.redis_url.value
                \in {RedissUrl, HttpUrl})
             => (loaded.status = "ValidationError" /\ loaded.value = NoSettings)
        /\ (/\ environ.secret_key
            /\ environ.jwt_secret
            /\ environ.database_url \in StrInputs({PgUrl, PostgresUrl})
            /\ environ.database_url.set
            /\ environ.redis_url = [set |-> TRUE, value |-> RedisUrl])
             => /\ loaded.status = "ok"
                /\ loaded.value.database_url = environ.database_url.value
                /\ loaded.value.redis_url = RedisUrl
        /\ loaded.status = "ValidationError" <=> loaded.value = NoSettings

\* Settings() has refused the URL postgresql+asyncpg://h of an otherwise
\* complete environment.
SchemeValidationWitness ==
    /\ loaded.status = "ValidationError"
    /\ loaded.value = NoSettings
    /\ environ.secret_key
    /\ environ.jwt_secret
    /\ environ.database_url = [set |-> TRUE, value |-> AsyncPgUrl]
    /\ environ.redis_url = [set |-> TRUE, value |-> RedisUrl]

\* C17: a negative value of a numeric field makes Settings() fail, and every
\* settings object constructed has its numeric fields >= 0.
NumericFieldsNonNegative ==
    loaded # Unloaded =>
        /\ (\E i \in NumericInputs(environ) : i.set /\ i.value < 0)
             => loaded.status = "ValidationError"
        /\ loaded.status = "ok" => \A n \in Numerics(loaded.value) : n >= 0

(***************************************************************************)
(* Properties of the limiter under concurrent requests.                    *)
(***************************************************************************)
AdmittedRacers == {i \in Racers : racers[i].admitted}

\* C11: whatever the interleaving of the concurrent requests of one
\* identity inside one window, at most cap of them are admitted, and the
\* counter equals the number admitted (no update is lost).
AdmissionCapUnderConcurrency ==
    /\ Cardinality(AdmittedRacers) <= settings.rate_limit_requests
    /\ buckets[RaceIdentity].count = Cardinality(AdmittedRacers)

\* More requests than the cap have raced; exactly cap were admitted.
AdmissionCapWitness ==
    /\ \A i \in Racers : racers[i].pc = "done"
    /\ MaxRacers > settings.rate_limit_requests
    /\ Cardinality(AdmittedRacers) = settings.rate_limit_requests
    /\ \E i \in Racers : ~racers[i].admitted

====
